---------------------------- MODULE Spec2Model ----------------------------
(***************************************************************************)
(* HeadlessBotterPlotter: the G-code job runner of src/gcode_streamer.py.  *)
(*                                                                         *)
(* The file holds two functions called stream_gcode.  The module-level one *)
(* (line 23) has a second copy of the whole script pasted into its body    *)
(* (lines 36-184), so load_config, CONFIG_FILE, os, ... are local names of *)
(* it, bound only when lines 37-115 run; its first statement (line 26)     *)
(* reads load_config before that and raises UnboundLocalError.  The nested *)
(* one (lines 115-181) is the complete job runner: select a pending        *)
(* program, stream it in lock step, notify, archive, clean up.             *)
(*                                                                         *)
(* Both are modelled, statement by statement.  A run is one call of one of *)
(* them by a process; the controller at the other end of the serial link   *)
(* is a process of its own.                                                *)
(***************************************************************************)
EXTENDS Integers, Sequences, FiniteSets, TLC

(***************************************************************************)
(* Bounds of the model.                                                    *)
(***************************************************************************)
\* lines of a pending program file
MaxLines == 3
\* calls of stream_gcode in one behaviour
MaxRuns == 2
\* lines of startup output the controller emits after a wake sequence
MaxStartup == 1

(***************************************************************************)
(* Text.  A character is one of: a blank, the comment mark, any other      *)
(* printable character ("G"), the line feed.                               *)
(***************************************************************************)
Whitespace == {" ", "\n"}

\* the raw lines a program file is made of (without their line feed)
RawLines ==
    { <<>>,
      <<" ">>,
      <<" ", ";", "G">>,
      <<" ", "G", " ">>,
      <<"G", " ", ";">> }

RECURSIVE SeqsUpTo(_, _)
SeqsUpTo(S, n) ==
    IF n = 0 THEN { <<>> }
    ELSE LET shorter == SeqsUpTo(S, n - 1)
         IN  shorter \cup { Append(s, x) : s \in { t \in shorter : Len(t) = n - 1 }, x \in S }

Programs == SeqsUpTo(RawLines, MaxLines)

\* the lines `for line in f` yields: every line of a text file ends in "\n"
FileLine(text, i) == text[i] \o <<"\n">>

RECURSIVE lstrip(_)
lstrip(s) ==
    IF s = <<>> THEN s
    ELSE IF Head(s) \in Whitespace THEN lstrip(Tail(s)) ELSE s

RECURSIVE rstrip(_)
rstrip(s) ==
    IF s = <<>> THEN s
    ELSE IF s[Len(s)] \in Whitespace THEN rstrip(SubSeq(s, 1, Len(s) - 1)) ELSE s

\* str.strip()
strip(s) == rstrip(lstrip(s))

\* str.startswith(c)
startswith(s, c) == Len(s) >= 1 /\ s[1] = c

\* only empty lines are passed over
SkippedWhenEmpty(line) == line = <<>>

\* line 158: if line.startswith(';') or not line: continue
Skipped(line) == startswith(line, ";") \/ line = <<>>

\* str.encode(): the ASCII code of each character
Ord(c) == CASE c = " "  -> 32
            [] c = ";"  -> 59
            [] c = "G"  -> 71
            [] c = "\n" -> 10

encode(s) == [k \in 1..Len(s) |-> Ord(s[k])]

\* line 160: (line + '\n').encode()
Block(line) == encode(line \o <<"\n">>)


(***************************************************************************)
(* State.                                                                  *)
(***************************************************************************)
Procs == {1, 2}
Jobs == {"a", "b"}
Senders == {"alice"}

VARIABLES
    plotter_gcode,     \* GCODE_FOLDER: the pending programs, in the order glob lists them
    sent_gcode,        \* SENT_FOLDER: file name -> text
    plotter_svgs,      \* SVG_FOLDER: the base names that have an .svg
    plotter_metadata,  \* METADATA_FOLDER: base name -> what the .json holds
    wire,              \* command blocks the controller has received and not yet answered
    inbuf,             \* the serial input buffer: response lines not yet read
    startup,           \* lines of startup output the controller has still to emit
    outbox,            \* the completion emails handed to the SMTP server
    runs,              \* calls of stream_gcode still to come
    active,            \* the processes that call stream_gcode
    proc,              \* per process: the frame of the call it is executing
    obs,               \* per process: what the call has done so far
    conv,              \* image_to_gcode_converter.py: the frame of main and of the call it makes
    tmpdir,            \* the temporary files on disk
    script,            \* tests/test_con.py: the frame of the script
    plotter,           \* a PlotterGcodeInterface: the calls made of it, and what they returned
    mailbox            \* email_downloader.py: the unread messages of the allowed senders

vars == <<plotter_gcode, sent_gcode, plotter_svgs, plotter_metadata, wire, inbuf,
          startup, outbox, runs, active, proc, obs, conv, tmpdir, script, plotter, mailbox>>

\* what the job runner leaves alone
conversion == <<conv, tmpdir, script, plotter, mailbox>>

folders == <<plotter_gcode, sent_gcode, plotter_svgs, plotter_metadata>>
link == <<wire, inbuf, startup>>

\* what a call can change outside its process: the four folders and the outbox
Outside == [gcode |-> plotter_gcode, sent |-> sent_gcode,
            svgs |-> plotter_svgs, meta |-> plotter_metadata, mail |-> outbox]

\* glob.glob(os.path.join(GCODE_FOLDER, "*.gcode")): the names, in listing order
glob == [k \in 1..Len(plotter_gcode) |-> plotter_gcode[k].name]

Names(listing) == { listing[k].name : k \in 1..Len(listing) }

\* the text of the pending program called name
TextOf(listing, name) ==
    listing[CHOOSE k \in 1..Len(listing) : listing[k].name = name].text

\* the listing without the entry called name (the others keep their order)
Without(listing, name) ==
    SelectSeq(listing, LAMBDA e : e.name # name)

\* name -> value, on dom
Put(f, name, value) ==
    [n \in DOMAIN f \cup {name} |-> IF n = name THEN value ELSE f[n]]

Drop(f, name) == [n \in DOMAIN f \ {name} |-> f[n]]

\* an empty folder
NoFiles == [n \in {} |-> ""]

\* the files of a listing, whatever their order
Contents(listing) == { listing[k] : k \in 1..Len(listing) }

\* a process that is not in a call
Idle ==
    [pc |-> "idle", entry |-> "none", fn |-> "none", asMain |-> FALSE,
     file_to_stream |-> "", recipient |-> "None", s |-> "unbound",
     text |-> <<>>, i |-> 0, line |-> <<>>, exc |-> "none", at |-> "none"]

\* what a call has done: the serial operations after the handshake, the blocks
\* written, the ports opened, the programs whose streaming began, the outcome of
\* the notification step, the folders and the outbox when the program was
\* selected (when the call began, before that), and the
\* program of the process's previous call when that call failed in mid-stream;
\* what load_config found, the steps of the handshake, and the selection of
\* the process's last call that selected a program: the pending programs
\* then, and the one taken; whether a line read after a command was an error
\* response
NoObs ==
    [ops |-> <<>>, written |-> <<>>, opens |-> 0, jobs |-> <<>>,
     notified |-> "none", fs0 |-> [gcode |-> <<>>, sent |-> NoFiles, svgs |-> {}, meta |-> NoFiles, mail |-> {}],
     prev |-> "", config |-> "unread", shake |-> <<>>,
     last |-> [pending |-> {}, file |-> ""], refused |-> FALSE]

(***************************************************************************)
(* The converter, src/image_to_gcode_converter.py, and the conversion      *)
(* script src/tests/test_con.py.  A point is <<x, y>>, in millimetres; a   *)
(* drawing is the chain of points the SVG parser returns for the traced    *)
(* image.                                                                  *)
(***************************************************************************)
\* calls of main in one behaviour
MaxConversions == 1

\* lines 19-24 and 156-160: the [GCodeSettings] that create_default_config writes
DefaultSettings ==
    [pen_down_position_mm |-> 0, pen_travel_position_mm |-> 5, pen |-> "set",
     min_plot_x |-> 30, min_plot_y |-> 30, max_plot_x |-> 210, max_plot_y |-> 275]

\* the settings a config.ini can hold: the default ones, ones without the pen
\* settings, ones with a plot area that is empty or inverted, a small area
Settings ==
    { DefaultSettings,
      [DefaultSettings EXCEPT !.pen = "missing"],
      [DefaultSettings EXCEPT !.max_plot_x = 30],
      [DefaultSettings EXCEPT !.max_plot_y = 20],
      [DefaultSettings EXCEPT !.min_plot_x = 0, !.min_plot_y = 0,
                              !.max_plot_x = 100, !.max_plot_y = 100] }

\* the drawings a traced image can be: twice the default plot area; one that
\* fits it, off centre; one that fits it, in its centre; a vertical stroke;
\* one wider than the area only
Drawings ==
    { << <<0, 0>>, <<360, 490>> >>,
      << <<0, 0>>, <<100, 50>>, <<20, 10>> >>,
      << <<40, 40>>, <<200, 265>> >>,
      << <<0, 0>>, <<0, 50>> >>,
      << <<0, 10>>, <<200, 20>> >> }

\* the axis-aligned bounds of a chain of points
Xs(points) == { points[k][1] : k \in 1..Len(points) }
Ys(points) == { points[k][2] : k \in 1..Len(points) }
Least(S) == CHOOSE v \in S : \A w \in S : v <= w
Most(S) == CHOOSE v \in S : \A w \in S : w <= v
Width(points) == Most(Xs(points)) - Least(Xs(points))
Height(points) == Most(Ys(points)) - Least(Ys(points))

\* What the converter finds on disk: config.ini (not there, or without a
\* [GCodeSettings] section, or with settings), the images of INPUT_FOLDER in
\* the order glob lists them, and the drawing that tracing an image gives.
Disk(ini, settings, images, traced) ==
    [ini |-> ini, settings |-> settings, images |-> images, traced |-> traced]

NoDisk == Disk("absent", DefaultSettings, <<>>, <<>>)

\* main is not running
ConvIdle ==
    [pc |-> "idle", left |-> 0, disk |-> NoDisk, config |-> DefaultSettings, todo |-> <<>>,
     image |-> [base |-> "", ext |-> ""],
     svg_str |-> <<>>, interface |-> "none", made |-> 0, tmp |-> 0, tmp_svg_file |-> 0,
     curves |-> <<>>, appended |-> <<>>, program |-> <<>>, removes |-> 0,
     result |-> "", exc |-> "none", at |-> "none"]

\* a PlotterGcodeInterface of which nothing has been called yet
NoCalls == [calls |-> <<>>, out |-> <<>>]

\* the script has not started
ScriptIdle ==
    [pc |-> "idle", drawing_width |-> 0, drawing_height |-> 0, scale_factor |-> <<1, 1>>,
     scaled |-> << <<0, 1>>, <<0, 1>> >>, wrapped |-> FALSE, program |-> <<>>]

\* the program of the spec's example, and one of two commands
Example == << <<";", " ", "G">>, <<>>, <<"G", " ", "G">> >>
TwoCommands == << <<"G", " ", "G">>, <<" ", "G", ";">> >>
OneCommand == << <<"G">> >>

MetadataKinds == Senders \cup {"nosender", "malformed"}

\* The pending folders a behaviour starts from: job "a" with a program of
\* progs, with or without its SVG, with metadata of one of kinds or without;
\* job "b", when there, listed before or after it, with its SVG and metadata.
InitFolders(progs, others, svg, kinds) ==
    /\ \E t \in progs, before \in SUBSET others, after \in SUBSET others :
          /\ before \cap after = {}
          /\ Cardinality(before \cup after) <= 1
          /\ LET entry(n) == [name |-> n, text |-> IF n = "a" THEN t ELSE OneCommand]
                 seq(S) == IF S = {} THEN <<>> ELSE << entry(CHOOSE n \in S : TRUE) >>
             IN  plotter_gcode = seq(before) \o << entry("a") >> \o seq(after)
    /\ sent_gcode = NoFiles
    /\ \E withSvg \in svg :
          plotter_svgs = IF withSvg THEN Names(plotter_gcode) ELSE Names(plotter_gcode) \ {"a"}
    /\ \E m \in kinds :
          plotter_metadata =
             [n \in (IF m = "absent" THEN Names(plotter_gcode) \ {"a"} ELSE Names(plotter_gcode))
                |-> IF n = "a" THEN m ELSE "alice"]

InitRest ==
    /\ wire = <<>>
    /\ inbuf = <<>>
    /\ startup = 0
    /\ outbox = {}
    /\ proc = [p \in Procs |-> Idle]
    /\ obs = [p \in Procs |-> NoObs]
    /\ conv = ConvIdle
    /\ tmpdir = {}
    /\ script = ScriptIdle
    /\ plotter = NoCalls
    /\ mailbox = <<>>

\* one job runner at a time, called up to MaxRuns times
Init ==
    /\ InitFolders({Example, TwoCommands}, {"b"}, BOOLEAN, MetadataKinds \cup {"absent"})
    /\ InitRest
    /\ runs = MaxRuns
    /\ active = {1}

\* one call, of a program of any text
InitText ==
    /\ InitFolders(Programs \cup {Example}, {}, {TRUE}, {"alice"})
    /\ InitRest
    /\ runs = 1
    /\ active = {1}

\* two job runners at once, one call each
InitPair ==
    /\ InitFolders({OneCommand}, {"b"}, {TRUE}, {"alice"})
    /\ InitRest
    /\ runs = 2
    /\ active = {1, 2}

(***************************************************************************)
(* The call.                                                               *)
(***************************************************************************)
Set(p, frame) == proc' = [proc EXCEPT ![p] = frame]
Note(p, o) == obs' = [obs EXCEPT ![p] = o]

\* a failed write or read is passed over and the loop goes on
RaiseAndGoOn(p, exc, at) ==
    [proc[p] EXCEPT !.pc = IF at \in {"write", "read"} THEN "iter" ELSE "except",
                    !.exc = exc, !.at = at]

\* an exception in the try block goes to the handlers of lines 174-177
Raise(p, exc, at) == [proc[p] EXCEPT !.pc = "except", !.exc = exc, !.at = at]

Callable(p) == p \in active /\ proc[p].pc \in {"idle", "done"} /\ runs > 0

\* the call of p ended by an I/O error of the write or the read of a command
FailedMidStream(p) ==
    proc[p].pc = "done" /\ proc[p].exc = "SerialException" /\ proc[p].at \in {"write", "read"}

Begin(p, frame) ==
    /\ Callable(p)
    /\ Set(p, frame)
    /\ Note(p, [NoObs EXCEPT !.fs0 = Outside,
                             !.prev = IF FailedMidStream(p)
                                      THEN proc[p].file_to_stream ELSE "",
                             !.last = IF proc[p].file_to_stream # ""
                                      THEN [pending |-> Contents(obs[p].fs0.gcode),
                                            file |-> proc[p].file_to_stream]
                                      ELSE obs[p].last])
    /\ runs' = runs - 1
    /\ UNCHANGED <<folders, link, outbox, active, conversion>>

\* A name that a function binds anywhere in its body is a local of it from its
\* first line on: reading it at useLine succeeds only when the binding at
\* defLine has already run.
LocalBoundAlways(defLine, useLine) == TRUE

LocalBound(defLine, useLine) == defLine < useLine

\* lines 238-239 and 23-26: the script calls the module-level stream_gcode,
\* whose line 26 reads its locals load_config (bound by the def of line 65) and
\* CONFIG_FILE (bound at line 51)
stream_gcode(p) ==
    \E main \in BOOLEAN :
       IF LocalBound(65, 26) /\ LocalBound(51, 26)
       THEN Begin(p, [Idle EXCEPT !.pc = "config", !.entry = "module", !.fn = "module",
                                  !.asMain = main])
       ELSE Begin(p, [Idle EXCEPT !.pc = "done", !.entry = "module", !.fn = "module",
                                  !.asMain = main, !.exc = "UnboundLocalError", !.at = "config"])

\* line 115: the nested stream_gcode is entered
nested_stream_gcode(p) ==
    /\ proc[p].pc \in {"idle", "done"}
    /\ Begin(p, [Idle EXCEPT !.pc = "config", !.entry = "nested", !.fn = "nested"])

\* a step of process p that touches only its own frame
Local(p, frame) ==
    /\ Set(p, frame)
    /\ UNCHANGED <<folders, link, outbox, runs, active, conversion, obs>>

\* what config.ini can be: not there; there without a [GCodeSettings]
\* section; with the section but without usb_port or baud_rate; with both
Configs == {"absent", "nosection", "incomplete", "complete"}

\* any file that is there is gone on with
UsableWhenPresent(config) == config # "absent"

\* lines 27-34 and 118: not (not config or 'usb_port' not in config or
\* 'baud_rate' not in config)
Usable(config) == config = "complete"

\* load_config, lines 12-21 and 65-72, and the checks of lines 27-34 and 118-120:
\* the file is absent (load_config returns None), or has no section
\* (config['GCodeSettings'] raises KeyError, which nothing takes), or lacks
\* usb_port or baud_rate, or has both.  In the
\* module-level function lines 36-184 follow: the pasted script binds its
\* names, and lines 183-184 call the nested stream_gcode when __name__ is
\* "__main__"; the module-level body goes on at line 186.
load_config(p) ==
    /\ proc[p].pc = "config"
    /\ \E config \in Configs :
          /\ Note(p, [obs[p] EXCEPT !.config = config])
          /\ UNCHANGED <<folders, link, outbox, runs, active, conversion>>
          /\ IF config = "nosection"
             THEN Set(p, [proc[p] EXCEPT !.pc = "return", !.exc = "KeyError", !.at = "config"])
             ELSE IF ~Usable(config)
             THEN Set(p, [proc[p] EXCEPT !.pc = "return"])
             ELSE IF proc[p].fn = "module" /\ proc[p].asMain
             THEN Set(p, [proc[p] EXCEPT !.pc = "config", !.fn = "nested"])
             ELSE Set(p, [proc[p] EXCEPT !.pc = "glob"])

\* lines 122-132 and 186-196: the first file glob lists is the one to stream
SelectFile(p) ==
    /\ proc[p].pc = "glob"
    /\ IF glob = <<>>
       THEN Local(p, [proc[p] EXCEPT !.pc = "return"])
       ELSE /\ Set(p, [proc[p] EXCEPT !.file_to_stream = glob[1],
                                     !.pc = IF proc[p].fn = "nested" THEN "metadata" ELSE "open"])
            /\ Note(p, [obs[p] EXCEPT !.fs0 = Outside, !.ops = <<>>, !.written = <<>>,
                                     !.notified = "none", !.shake = <<>>,
                                     !.refused = FALSE])
            /\ UNCHANGED <<folders, link, outbox, runs, active, conversion>>

\* lines 134-145: the recipient is the "sender" of the job's metadata record;
\* json.load of a malformed record raises, outside the try statement
ReadMetadata(p) ==
    /\ proc[p].pc = "metadata"
    /\ LET name == proc[p].file_to_stream
       IN  IF name \notin DOMAIN plotter_metadata
           THEN Local(p, [proc[p] EXCEPT !.pc = "open", !.recipient = "None"])
           ELSE IF plotter_metadata[name] = "malformed"
           THEN Local(p, [proc[p] EXCEPT !.pc = "return", !.exc = "JSONDecodeError",
                                        !.at = "metadata"])
           ELSE Local(p, [proc[p] EXCEPT !.pc = "open",
                                        !.recipient = IF plotter_metadata[name] = "nosender"
                                                      THEN "None" ELSE plotter_metadata[name]])

(***************************************************************************)
(* The try statement, lines 147-181 (nested) and 198-236 (module-level).   *)
(***************************************************************************)
\* The statement that follows statement pc of function fn when pc ends
\* normally ("loop": the for loop has run out of lines).  The module-level
\* body has no notification and no cleanup of companions.
Order(fn, pc) ==
    CASE pc = "open"     -> "wake"
      [] pc = "wake"     -> "sleep"
      [] pc = "sleep"    -> "flush"
      [] pc = "flush"    -> "openfile"
      [] pc = "openfile" -> "iter"
      [] pc = "write"    -> "read"
      [] pc = "read"     -> "iter"
      [] pc = "loop"     -> IF fn = "nested" THEN "email" ELSE "rename"
      [] pc = "email"    -> "rename"
      [] pc = "rename"   -> IF fn = "nested" THEN "rmsvg" ELSE "finally"
      [] pc = "rmsvg"    -> "rmmeta"
      [] pc = "rmmeta"   -> "finally"
      [] pc = "except"   -> "finally"
      [] pc = "finally"  -> "return"

\* the input buffer is not discarded
AfterNoFlush(fn, pc) == IF pc = "sleep" THEN "openfile" ELSE Order(fn, pc)

\* the acknowledgment is not waited for
AfterNoAck(fn, pc) == IF pc = "write" THEN "iter" ELSE Order(fn, pc)

\* the handlers fall into the cleanup of the companions
AfterCleanupOnError(fn, pc) == IF pc = "except" THEN "rmsvg" ELSE Order(fn, pc)

\* the handlers archive the program
AfterArchiveOnError(fn, pc) == IF pc = "except" THEN "rename" ELSE Order(fn, pc)

After(fn, pc) == Order(fn, pc)

\* p goes on to the statement after the one it is at
Go(p) == [proc[p] EXCEPT !.pc = After(proc[p].fn, proc[p].pc)]

\* a step of p that touches its frame and its record of the call
Step(p, frame, o) ==
    /\ Set(p, frame)
    /\ Note(p, o)

\* lines 149 and 201: serial.Serial(port, baud) opens the port or raises
\* SerialException; nothing in the call asks for exclusive access
OpenSerial(p) ==
    /\ proc[p].pc = "open"
    /\ \/ Step(p, [Go(p) EXCEPT !.s = "open"],
                  [obs[p] EXCEPT !.opens = @ + 1, !.shake = Append(@, <<"open">>)])
       \/ Step(p, Raise(p, "SerialException", "open"), obs[p])
    /\ UNCHANGED <<folders, link, outbox, runs, active, conversion>>

\* lines 150 and 204: s.write(b"\r\n\r\n") wakes the controller, which answers
\* with its startup output, some time later
Wake(p) ==
    /\ proc[p].pc = "wake"
    /\ \/ /\ Step(p, Go(p), [obs[p] EXCEPT !.shake = Append(@, <<"wake">>)])
          /\ startup' \in 0..MaxStartup
          /\ UNCHANGED <<wire, inbuf>>
       \/ /\ Step(p, Raise(p, "SerialException", "wake"), obs[p])
          /\ UNCHANGED link
    /\ UNCHANGED <<folders, outbox, runs, active, conversion>>

\* lines 151 and 205: the argument of time.sleep
SettleSeconds == 2

\* lines 151 and 205: time.sleep(2)
Settle(p) ==
    /\ proc[p].pc = "sleep"
    /\ Step(p, Go(p), [obs[p] EXCEPT !.shake = Append(@, <<"sleep", SettleSeconds>>)])
    /\ UNCHANGED <<folders, link, outbox, runs, active, conversion>>

\* lines 152 and 206: s.flushInput() discards what the input buffer holds
FlushInput(p) ==
    /\ proc[p].pc = "flush"
    /\ Step(p, Go(p), [obs[p] EXCEPT !.shake = Append(@, <<"flush">>)])
    /\ inbuf' = <<>>
    /\ UNCHANGED <<folders, wire, startup, outbox, runs, active, conversion>>

\* lines 155 and 211: open(file_to_stream, "r")
OpenFile(p) ==
    /\ proc[p].pc = "openfile"
    /\ LET name == proc[p].file_to_stream
       IN  IF name \in Names(plotter_gcode)
           THEN Step(p, [Go(p) EXCEPT !.i = 1, !.text = TextOf(plotter_gcode, name)],
                        [obs[p] EXCEPT !.jobs = Append(@, name)])
           ELSE Step(p, Raise(p, "Exception", "openfile"), obs[p])
    /\ UNCHANGED <<folders, link, outbox, runs, active, conversion>>

\* lines 156-158 and 212-215: the next line of the file, stripped; a comment
\* or an empty line is passed over; after the last line the loop ends
NextLine(p) ==
    /\ proc[p].pc = "iter"
    /\ IF proc[p].i > Len(proc[p].text)
       THEN Local(p, [proc[p] EXCEPT !.pc = After(proc[p].fn, "loop")])
       ELSE LET line == strip(FileLine(proc[p].text, proc[p].i))
            IN  Local(p, [proc[p] EXCEPT !.line = line, !.i = @ + 1,
                                         !.pc = IF Skipped(line) THEN "iter" ELSE "write"])

\* lines 160 and 218: s.write((line + '\n').encode())
WriteBlock(p) ==
    /\ proc[p].pc = "write"
    /\ \/ /\ Step(p, Go(p),
                     [obs[p] EXCEPT !.ops = Append(@, "write"),
                                    !.written = Append(@, Block(proc[p].line))])
          /\ wire' = Append(wire, Block(proc[p].line))
       \/ /\ Step(p, Raise(p, "SerialException", "write"),
                     [obs[p] EXCEPT !.ops = Append(@, "write")])
          /\ UNCHANGED wire
    /\ UNCHANGED <<folders, inbuf, startup, outbox, runs, active, conversion>>

\* lines 161 and 219: s.readline() blocks until the input buffer holds a line,
\* and takes it, whatever it says
ReadAck(p) ==
    /\ proc[p].pc = "read"
    /\ \/ /\ inbuf # <<>>
          /\ inbuf' = Tail(inbuf)
          /\ Step(p, Go(p),
                     [obs[p] EXCEPT !.ops = Append(@, "read"),
                                    !.refused = @ \/ Head(inbuf).kind = "error"])
       \/ /\ Step(p, Raise(p, "SerialException", "read"),
                     [obs[p] EXCEPT !.ops = Append(@, "read")])
          /\ UNCHANGED inbuf
    /\ UNCHANGED <<folders, wire, startup, outbox, runs, active, conversion>>

\* lines 74-113, called at line 166: send_completion_email(recipient,
\* base_filename, svg_path).  Without SMTP settings or without a recipient it
\* returns; it reads the SVG, when there is one, outside its try statement, so
\* a failure to read it leaves the function as an exception; a failure of the
\* SMTP exchange is caught and printed.
send_completion_email(p) ==
    /\ proc[p].pc = "email"
    /\ LET name == proc[p].file_to_stream
           to == proc[p].recipient
           go(outcome) == Step(p, Go(p), [obs[p] EXCEPT !.notified = outcome])
       IN  \E configured \in BOOLEAN :
              IF ~configured
              THEN go("unconfigured") /\ UNCHANGED outbox
              ELSE IF to = "None"
              THEN go("norecipient") /\ UNCHANGED outbox
              ELSE \/ /\ name \in plotter_svgs
                      /\ Step(p, Raise(p, "Exception", "email"),
                                 [obs[p] EXCEPT !.notified = "raised"])
                      /\ UNCHANGED outbox
                   \/ /\ go("sent")
                      /\ outbox' = outbox \cup {[to |-> to, file |-> name,
                                                 attached |-> name \in plotter_svgs]}
                   \/ go("smtp_failed") /\ UNCHANGED outbox
    /\ UNCHANGED <<folders, link, runs, active, conversion>>

\* lines 169 and 225: os.rename(file_to_stream, SENT_FOLDER/base_filename)
\* moves the file, or raises OSError (always so when the file is gone)
Rename(p) ==
    /\ proc[p].pc = "rename"
    /\ LET name == proc[p].file_to_stream
       IN  \/ /\ name \in Names(plotter_gcode)
              /\ plotter_gcode' = Without(plotter_gcode, name)
              /\ sent_gcode' = Put(sent_gcode, name, TextOf(plotter_gcode, name))
              /\ Set(p, Go(p))
           \/ /\ Set(p, Raise(p, "Exception", "rename"))
              /\ UNCHANGED <<plotter_gcode, sent_gcode>>
    /\ UNCHANGED <<plotter_svgs, plotter_metadata, link, outbox, runs, active, conversion, obs>>

\* line 171: if os.path.exists(svg_path): os.remove(svg_path)
RemoveSvg(p) ==
    /\ proc[p].pc = "rmsvg"
    /\ LET name == proc[p].file_to_stream
       IN  IF name \notin plotter_svgs
           THEN Set(p, Go(p)) /\ UNCHANGED plotter_svgs
           ELSE \/ /\ Set(p, Go(p))
                   /\ plotter_svgs' = plotter_svgs \ {name}
                \/ /\ Set(p, Raise(p, "Exception", "rmsvg"))
                   /\ UNCHANGED plotter_svgs
    /\ UNCHANGED <<plotter_gcode, sent_gcode, plotter_metadata, link, outbox, runs, active, conversion, obs>>

\* line 172: if os.path.exists(metadata_path): os.remove(metadata_path)
RemoveMetadata(p) ==
    /\ proc[p].pc = "rmmeta"
    /\ LET name == proc[p].file_to_stream
       IN  IF name \notin DOMAIN plotter_metadata
           THEN Set(p, Go(p)) /\ UNCHANGED plotter_metadata
           ELSE \/ /\ Set(p, Go(p))
                   /\ plotter_metadata' = Drop(plotter_metadata, name)
                \/ /\ Set(p, Raise(p, "Exception", "rmmeta"))
                   /\ UNCHANGED plotter_metadata
    /\ UNCHANGED <<plotter_gcode, sent_gcode, plotter_svgs, link, outbox, runs, active, conversion, obs>>

\* the statements of the try block
InTry == {"open", "wake", "sleep", "flush", "openfile", "iter", "write", "read",
          "email", "rename", "rmsvg", "rmmeta"}

\* Ctrl-C while the try block runs: KeyboardInterrupt is no Exception, so no
\* handler takes it; the finally clause runs and the interrupt goes on up
Interrupt(p) ==
    /\ proc[p].pc \in InTry
    /\ Local(p, [proc[p] EXCEPT !.pc = "finally", !.exc = "KeyboardInterrupt", !.at = proc[p].pc])

\* lines 174-177 and 228-232: both handlers print the error
Except(p) ==
    /\ proc[p].pc = "except"
    /\ Local(p, Go(p))

\* the port is left as it is
NotClosed(s) == s

\* lines 179-180 and 234-235: s is closed when it is bound and open
Closed(s) == IF s = "open" THEN "closed" ELSE s

\* lines 178-181 and 233-236: if 's' in locals() and s.is_open: s.close().
\* Once no process holds the port, what the controller still sends reaches
\* nobody: the link is as before the first open.
Finally(p) ==
    /\ proc[p].pc = "finally"
    /\ Set(p, [Go(p) EXCEPT !.s = Closed(proc[p].s)])
    /\ IF proc[p].s = "open" /\ \A q \in Procs \ {p} : proc[q].s # "open"
       THEN wire' = <<>> /\ inbuf' = <<>> /\ startup' = 0
       ELSE UNCHANGED link
    /\ UNCHANGED <<folders, outbox, runs, active, conversion, obs>>

\* the exceptions no handler of stream_gcode takes
Uncaught == {"JSONDecodeError", "KeyError", "KeyboardInterrupt", "UnboundLocalError"}

\* The function is left, and its locals with it; what stays is what the
\* caller and the operating system can see of the call.  The nested function called at line 184 returns into
\* the module-level body, which goes on at line 186 with locals of its own; an
\* exception the nested function did not take leaves the module-level one too.
Return(p) ==
    /\ proc[p].pc = "return"
    /\ IF proc[p].fn = "nested" /\ proc[p].entry = "module" /\ proc[p].exc \notin Uncaught
       THEN Local(p, [Idle EXCEPT !.pc = "glob", !.entry = "module", !.fn = "module",
                                  !.asMain = proc[p].asMain])
       ELSE Local(p, [Idle EXCEPT !.pc = "done", !.entry = proc[p].entry, !.fn = proc[p].fn,
                                  !.file_to_stream = proc[p].file_to_stream,
                                  !.s = proc[p].s, !.exc = proc[p].exc, !.at = proc[p].at])

(***************************************************************************)
(* The controller: it emits its startup output some time after it was      *)
(* woken, and answers each block it has received with one response line:   *)
(* "ok" when it accepts the command, "error:N" when it does not.           *)
(***************************************************************************)
ControllerStartup ==
    /\ startup > 0
    /\ startup' = startup - 1
    /\ inbuf' = Append(inbuf, [kind |-> "startup", block |-> <<>>])
    /\ UNCHANGED <<folders, wire, outbox, runs, active, conversion, proc, obs>>

ControllerAnswer ==
    /\ wire # <<>>
    /\ wire' = Tail(wire)
    /\ inbuf' = Append(inbuf, [kind |-> "ok", block |-> Head(wire)])
    /\ UNCHANGED <<folders, startup, outbox, runs, active, conversion, proc, obs>>

\* the controller does not accept the command: it answers "error:N"
ControllerRefuse ==
    /\ wire # <<>>
    /\ wire' = Tail(wire)
    /\ inbuf' = Append(inbuf, [kind |-> "error", block |-> Head(wire)])
    /\ UNCHANGED <<folders, startup, outbox, runs, active, conversion, proc, obs>>

Next ==
    \/ \E p \in Procs :
          \/ stream_gcode(p)
          \/ nested_stream_gcode(p)
          \/ load_config(p)
          \/ SelectFile(p)
          \/ ReadMetadata(p)
          \/ OpenSerial(p)
          \/ Wake(p)
          \/ Settle(p)
          \/ FlushInput(p)
          \/ OpenFile(p)
          \/ NextLine(p)
          \/ WriteBlock(p)
          \/ ReadAck(p)
          \/ send_completion_email(p)
          \/ Rename(p)
          \/ RemoveSvg(p)
          \/ RemoveMetadata(p)
          \/ Interrupt(p)
          \/ Except(p)
          \/ Finally(p)
          \/ Return(p)
    \/ ControllerStartup
    \/ ControllerAnswer

Spec == Init /\ [][Next]_vars

SpecText == InitText /\ [][Next]_vars

SpecPair == InitPair /\ [][Next]_vars

\* the job runner with a controller that can refuse a command
NextDevice == Next \/ ControllerRefuse

SpecDevice == Init /\ [][NextDevice]_vars

(***************************************************************************)
(* The job runner called again and again (lines 238-239: each run of the   *)
(* script is one call), every call carried on with as long as it can be.   *)
(***************************************************************************)
\* the statements of a call of p, but for the read of line 161
Steps(p) ==
    \/ load_config(p)
    \/ SelectFile(p)
    \/ ReadMetadata(p)
    \/ OpenSerial(p)
    \/ Wake(p)
    \/ Settle(p)
    \/ FlushInput(p)
    \/ OpenFile(p)
    \/ NextLine(p)
    \/ WriteBlock(p)
    \/ send_completion_email(p)
    \/ Rename(p)
    \/ RemoveSvg(p)
    \/ RemoveMetadata(p)
    \/ Except(p)
    \/ Finally(p)
    \/ Return(p)

\* nothing is known of the read: the device may be silent for ever
ReadMayBlock(p) == TRUE

\* line 161, on a port opened without a timeout (line 149): s.readline()
\* returns a line or raises an I/O error, sooner or later
ReadReturns(p) == WF_vars(ReadAck(p))

\* the script is run again when its calls are over
Again ==
    /\ runs = 0
    /\ \A p \in Procs : proc[p].pc \in {"idle", "done"}
    /\ runs' = MaxRuns
    /\ UNCHANGED <<folders, link, outbox, active, conversion, proc, obs>>

NextFair == Next \/ Again

\* two programs of one command each are pending, with their companions
InitRetry ==
    /\ InitFolders({OneCommand}, {"b"}, {TRUE}, {"alice"})
    /\ Len(plotter_gcode) = 2
    /\ InitRest
    /\ runs = MaxRuns
    /\ active = {1}

Fairness ==
    /\ \A p \in Procs : WF_vars(Steps(p)) /\ ReadReturns(p)
    /\ \A p \in Procs : WF_vars(nested_stream_gcode(p))
    /\ WF_vars(Again)

SpecFair == InitRetry /\ [][NextFair]_vars /\ Fairness


(***************************************************************************)
(* The tool-control interface the compiler is given, and what the compiler *)
(* makes of a chain of points.  A command is [cmd, x, y, z]; a coordinate  *)
(* it does not carry is <<>>.                                              *)
(***************************************************************************)
Command(cmd, x, y, z) == [cmd |-> cmd, x |-> x, y |-> y, z |-> z]

\* tests/test_con.py lines 37-38: PlotterGcodeInterface.safe_z, .plunge_depth
safe_z == 1
plunge_depth == 0 - 5

\* lines 40-42; interfaces.Gcode switches the laser off (M5)
laser_off(interface) ==
    IF interface = "PlotterGcodeInterface"
    THEN Command("G0", <<>>, <<>>, <<safe_z>>)
    ELSE Command("M5", <<>>, <<>>, <<>>)

\* lines 44-47; interfaces.Gcode switches the laser on (M3)
laser_on(interface) ==
    IF interface = "PlotterGcodeInterface"
    THEN Command("G1", <<>>, <<>>, <<plunge_depth>>)
    ELSE Command("M3", <<>>, <<>>, <<>>)

\* lines 49-51; interfaces.Gcode sets the power with M3 S
set_laser_power(interface) ==
    IF interface = "PlotterGcodeInterface"
    THEN Command("", <<>>, <<>>, <<>>)
    ELSE Command("M3", <<>>, <<>>, <<>>)

\* lines 53-56; interfaces.Gcode moves in X and Y only
linear_move(interface, point) ==
    IF interface = "PlotterGcodeInterface"
    THEN Command("G1", <<point[1]>>, <<point[2]>>, <<plunge_depth>>)
    ELSE Command("G1", <<point[1]>>, <<point[2]>>, <<>>)

\* one pass over a chain: tool up, to the start, tool down, along the chain,
\* tool up
Body(interface, points) ==
    << laser_off(interface), linear_move(interface, points[1]),
       laser_on(interface), set_laser_power(interface) >>
    \o [k \in 1..(Len(points) - 1) |-> linear_move(interface, points[k + 1])]
    \o << laser_off(interface) >>

\* compile_to_file(path, passes): the body, passes times
RECURSIVE Compile(_, _, _)
Compile(interface, points, passes) ==
    IF passes = 0 \/ points = <<>> THEN <<>>
    ELSE Body(interface, points) \o Compile(interface, points, passes - 1)

\* a command as a line of the program file: its words, a blank between them
RECURSIVE Words(_)
Words(n) == IF n = 0 THEN <<>> ELSE IF n = 1 THEN <<"G">> ELSE <<"G", " ">> \o Words(n - 1)

Line(c) == Words((IF c.cmd = "" THEN 0 ELSE 1) + Len(c.x) + Len(c.y) + Len(c.z))

Render(program) == [k \in 1..Len(program) |-> Line(program[k])]


(***************************************************************************)
(* image_to_gcode_converter.py: main (lines 334-357) and                   *)
(* process_image_to_gcode (lines 289-331).                                 *)
(***************************************************************************)
\* lines 10-11: INPUT_FOLDER holds images; OUTPUT_FOLDER is the folder the job
\* runner takes its programs from
OUTPUT_FOLDER == "plotter_gcode"

\* the images of INPUT_FOLDER as glob lists them: base name and extension
ImagePair == << [base |-> "b", ext |-> ".jpg"], [base |-> "a", ext |-> ".png"] >>

ImageLists == { <<>>, << [base |-> "a", ext |-> ".png"] >>, ImagePair }

\* lines 322-324: os.path.splitext(os.path.basename(image_path))[0] + ".gcode",
\* joined to the output folder
output_path(output_folder, image) == <<output_folder, image.base, ".gcode">>

\* a step of the converter that touches its frame only
ConvLocal(frame) ==
    /\ conv' = frame
    /\ UNCHANGED <<folders, link, outbox, runs, active, proc, obs, tmpdir, script, plotter, mailbox>>

\* an exception leaves process_image_to_gcode before its try statement: main
\* takes it (line 356) and goes on with the next image
ConvRaise(exc, at) == [conv EXCEPT !.pc = "loop", !.exc = exc, !.at = at]

\* an exception in the try block: the finally clause runs first
ConvRaiseInTry(exc, at) == [conv EXCEPT !.pc = "finally", !.exc = exc, !.at = at]

\* lines 334-347, with load_config (lines 280-287): a config.ini that is not
\* there is written with the default settings; the images are listed
main ==
    /\ conv.pc \in {"idle", "done"}
    /\ conv.left > 0
    /\ LET frame == [ConvIdle EXCEPT !.left = conv.left - 1, !.made = conv.made,
                                     !.disk = conv.disk]
       IN  IF conv.disk.ini = "nosection"
           THEN ConvLocal([frame EXCEPT !.pc = "done", !.exc = "KeyError", !.at = "load_config"])
           ELSE IF conv.disk.ini = "absent"
           THEN ConvLocal([frame EXCEPT !.pc = "loop", !.todo = conv.disk.images,
                                        !.config = DefaultSettings,
                                        !.disk = [conv.disk EXCEPT !.ini = "settings",
                                                                   !.settings = DefaultSettings]])
           ELSE ConvLocal([frame EXCEPT !.pc = "loop", !.todo = conv.disk.images,
                                        !.config = conv.disk.settings])

\* lines 351-354: the next image is handed to process_image_to_gcode
NextImage ==
    /\ conv.pc = "loop"
    /\ IF conv.todo = <<>>
       THEN ConvLocal([conv EXCEPT !.pc = "done"])
       ELSE ConvLocal([ConvIdle EXCEPT !.pc = "read", !.left = conv.left, !.made = conv.made,
                                       !.disk = conv.disk, !.config = conv.config, !.todo = Tail(conv.todo),
                                       !.image = Head(conv.todo)])

\* the file of INPUT_FOLDER that image names, as it is now on disk
OnDisk(image) ==
    LET same == { k \in 1..Len(conv.disk.images) :
                    /\ conv.disk.images[k].base = image.base
                    /\ conv.disk.images[k].ext = image.ext }
    IN  IF same = {} THEN image ELSE conv.disk.images[CHOOSE k \in same : TRUE]

\* lines 295-296: the image is read, as it is on disk at that time
ReadImage ==
    /\ conv.pc = "read"
    /\ \/ ConvLocal([conv EXCEPT !.pc = "trace", !.image = OnDisk(conv.image)])
       \/ ConvLocal(ConvRaise("Exception", "read"))

\* what vtracer makes of the bytes of an image: a file that an email brought
\* holds the payload of its attachment, known here by the drawing it shows
Traced(image) ==
    IF "payload" \in DOMAIN image THEN image.payload ELSE conv.disk.traced

\* line 302: vtracer turns the image into the text of an SVG
TraceImage ==
    /\ conv.pc = "trace"
    /\ \/ ConvLocal([conv EXCEPT !.pc = "compiler", !.svg_str = Traced(conv.image)])
       \/ ConvLocal(ConvRaise("Exception", "trace"))

\* lines 305-308: the compiler gets interfaces.Gcode, the feed rate and the
\* pen-down position; a setting that is missing is a KeyError
MakeCompiler ==
    /\ conv.pc = "compiler"
    /\ IF conv.config.pen = "missing"
       THEN ConvLocal(ConvRaise("KeyError", "compiler"))
       ELSE ConvLocal([conv EXCEPT !.pc = "mktemp", !.interface = "Gcode"])

\* line 313: NamedTemporaryFile(..., delete=False) makes a file of a new name
MakeTemp ==
    /\ conv.pc = "mktemp"
    /\ \/ /\ conv' = [conv EXCEPT !.pc = "writesvg", !.made = @ + 1, !.tmp = conv.made + 1]
          /\ tmpdir' = tmpdir \cup {conv.made + 1}
       \/ /\ conv' = ConvRaiseInTry("Exception", "mktemp")
          /\ UNCHANGED tmpdir
    /\ UNCHANGED <<folders, link, outbox, runs, active, proc, obs, script, plotter, mailbox>>

\* lines 314-315: f.write(svg_str), and only then tmp_svg_file = f.name
WriteSvg ==
    /\ conv.pc = "writesvg"
    /\ \/ ConvLocal([conv EXCEPT !.pc = "closesvg", !.tmp_svg_file = conv.tmp])
       \/ ConvLocal(ConvRaiseInTry("Exception", "writesvg"))

\* the end of the with statement of line 313 closes the file
CloseSvg ==
    /\ conv.pc = "closesvg"
    /\ \/ ConvLocal([conv EXCEPT !.pc = "parse"])
       \/ ConvLocal(ConvRaiseInTry("Exception", "closesvg"))

\* line 318: curves = parse_file(tmp_svg_file)
ParseFile ==
    /\ conv.pc = "parse"
    /\ \/ ConvLocal([conv EXCEPT !.pc = "append", !.curves = conv.svg_str])
       \/ ConvLocal(ConvRaiseInTry("Exception", "parse"))

\* line 319: compiler.append_curves(curves): the curves as parse_file gave them
AppendCurves ==
    /\ conv.pc = "append"
    /\ \/ ConvLocal([conv EXCEPT !.pc = "compile", !.appended = conv.curves])
       \/ ConvLocal(ConvRaiseInTry("Exception", "append"))


\* the listings a folder can have once entry is written: a file that is
\* there is written over, where it is; a new file is listed wherever the
\* file system puts it
PutFile(listing, entry) ==
    IF entry.name \in Names(listing)
    THEN { [k \in 1..Len(listing) |-> IF listing[k].name = entry.name THEN entry ELSE listing[k]] }
    ELSE { SubSeq(listing, 1, k) \o <<entry>> \o SubSeq(listing, k + 1, Len(listing)) :
              k \in 0..Len(listing) }

\* The file compile_to_file has opened is written wherever it is now:
\* os.rename moves a file that is open, and what is written to it afterwards
\* goes where it went.
WriteOutput(name, text) ==
    IF name \in Names(plotter_gcode)
    THEN /\ plotter_gcode' = [k \in 1..Len(plotter_gcode) |->
                                 IF plotter_gcode[k].name = name
                                 THEN [name |-> name, text |-> text]
                                 ELSE plotter_gcode[k]]
         /\ UNCHANGED sent_gcode
    ELSE IF name \in DOMAIN sent_gcode
    THEN /\ sent_gcode' = Put(sent_gcode, name, text)
         /\ UNCHANGED plotter_gcode
    ELSE UNCHANGED <<plotter_gcode, sent_gcode>>

\* lines 322-325: compiler.compile_to_file(output_path, passes=2) is handed
\* the path in OUTPUT_FOLDER itself and opens it for writing: the file is
\* there from now on, empty, and a file of that name is cut to nothing
OpenOutput ==
    /\ conv.pc = "compile"
    /\ LET path == output_path(OUTPUT_FOLDER, conv.image)
       IN  \/ /\ conv' = [conv EXCEPT !.pc = "writefile"]
              /\ plotter_gcode' \in PutFile(plotter_gcode, [name |-> path[2], text |-> <<>>])
           \/ /\ conv' = ConvRaiseInTry("Exception", "compile")
              /\ UNCHANGED plotter_gcode
    /\ UNCHANGED <<sent_gcode, plotter_svgs, plotter_metadata, link, outbox, runs, active,
                   proc, obs, tmpdir, script, plotter, mailbox>>

\* lines 325-327: the whole program is in the file, the file is closed, and
\* the path is what the function returns; when the write fails the file stays
\* as far as it was written
CompileToFile ==
    /\ conv.pc = "writefile"
    /\ LET program == Compile(conv.interface, conv.appended, 2)
           path == output_path(OUTPUT_FOLDER, conv.image)
       IN  \/ /\ conv' = [conv EXCEPT !.pc = "finally", !.program = program, !.result = path]
              /\ WriteOutput(path[2], Render(program))
           \/ /\ conv' = ConvRaiseInTry("Exception", "compile")
              /\ UNCHANGED <<plotter_gcode, sent_gcode>>
    /\ UNCHANGED <<plotter_svgs, plotter_metadata, link, outbox, runs, active,
                   proc, obs, tmpdir, script, plotter, mailbox>>

\* lines 328-331: if tmp_svg_file and os.path.exists(tmp_svg_file):
\* os.remove(tmp_svg_file); then the function is left
ConvFinally ==
    /\ conv.pc = "finally"
    /\ IF conv.tmp_svg_file # 0 /\ conv.tmp_svg_file \in tmpdir
       THEN /\ tmpdir' = tmpdir \ {conv.tmp_svg_file}
            /\ conv' = [conv EXCEPT !.pc = "loop", !.removes = @ + 1]
       ELSE /\ UNCHANGED tmpdir
            /\ conv' = [conv EXCEPT !.pc = "loop"]
    /\ UNCHANGED <<folders, link, outbox, runs, active, proc, obs, script, plotter, mailbox>>

NextConverter ==
    \/ main
    \/ NextImage
    \/ ReadImage
    \/ TraceImage
    \/ MakeCompiler
    \/ MakeTemp
    \/ WriteSvg
    \/ CloseSvg
    \/ ParseFile
    \/ AppendCurves
    \/ OpenOutput
    \/ CompileToFile
    \/ ConvFinally

\* the converter alone: nothing is pending, no job runner is called
InitConvert ==
    /\ plotter_gcode = <<>>
    /\ sent_gcode = NoFiles
    /\ plotter_svgs = {}
    /\ plotter_metadata = NoFiles
    /\ wire = <<>> /\ inbuf = <<>> /\ startup = 0 /\ outbox = {}
    /\ runs = 0 /\ active = {}
    /\ proc = [p \in Procs |-> Idle]
    /\ obs = [p \in Procs |-> NoObs]
    /\ \E ini \in {"absent", "nosection", "settings"}, settings \in Settings,
          images \in ImageLists, traced \in Drawings :
          /\ ini # "settings" => settings = DefaultSettings
          /\ conv = [ConvIdle EXCEPT !.left = MaxConversions,
                                     !.disk = Disk(ini, settings, images, traced)]
    /\ tmpdir = {}
    /\ script = ScriptIdle
    /\ plotter = NoCalls
    /\ mailbox = <<>>

SpecConvert == InitConvert /\ [][NextConverter]_vars


\* the program the converter makes of a drawing
Converted(traced) == Render(Compile("Gcode", traced, 2))

\* a traced image of one stroke
Stroke == << <<0, 0>>, <<0, 50>> >>

\* The converter and the job runner side by side: the converter writes the
\* programs the job runner takes.  Programs "a" and "b", converted from
\* a.png and b.jpg, are pending; a.png is still in INPUT_FOLDER, and main
\* converts whatever is there.
InitPipeline ==
    /\ plotter_gcode = << [name |-> "a", text |-> Converted(Stroke)],
                          [name |-> "b", text |-> Converted(Stroke)] >>
    /\ sent_gcode = NoFiles
    /\ plotter_svgs = {}
    /\ plotter_metadata = NoFiles
    /\ wire = <<>> /\ inbuf = <<>> /\ startup = 0 /\ outbox = {}
    /\ runs = MaxRuns /\ active = {1}
    /\ proc = [p \in Procs |-> Idle]
    /\ obs = [p \in Procs |-> NoObs]
    /\ conv = [ConvIdle EXCEPT !.left = MaxConversions,
                               !.disk = Disk("settings", DefaultSettings,
                                             << [base |-> "a", ext |-> ".png"] >>, Stroke)]
    /\ tmpdir = {}
    /\ script = ScriptIdle
    /\ plotter = NoCalls
    /\ mailbox = <<>>

NextPipeline == Next \/ NextConverter

SpecPipeline == InitPipeline /\ [][NextPipeline]_vars

(***************************************************************************)
(* tests/test_con.py, stage 2 (lines 104-143): the drawing is scaled down  *)
(* to 100 mm by 100 mm and compiled with PlotterGcodeInterface.  A factor  *)
(* is a fraction <<numerator, denominator>> in lowest terms.               *)
(***************************************************************************)
RECURSIVE GCD(_, _)
GCD(a, b) == IF b = 0 THEN a ELSE GCD(b, a % b)

Frac(n, d) == <<n \div GCD(n, d), d \div GCD(n, d)>>

Less(a, b) == a[1] * b[2] < b[1] * a[2]

\* min(a, b): the first of two equal arguments
min(a, b) == IF Less(b, a) THEN b ELSE a

Times(v, f) == Frac(v * f[1], f[2])

\* lines 109-113: the side of the area the script fits the drawing to
FitSide == 100

\* the widths and heights an SVG can declare
Sizes == {0, 50, 100, 150, 360, 490}

\* the factor is computed whether or not the drawing fits
scale_factor_fill(drawing_width, drawing_height) ==
    LET scale_x == IF drawing_width > 0 THEN Frac(FitSide, drawing_width) ELSE <<1, 1>>
        scale_y == IF drawing_height > 0 THEN Frac(FitSide, drawing_height) ELSE <<1, 1>>
    IN  min(scale_x, scale_y)

\* lines 110-114
scale_factor(drawing_width, drawing_height) ==
    IF drawing_width > FitSide \/ drawing_height > FitSide
    THEN LET scale_x == IF drawing_width > 0 THEN Frac(FitSide, drawing_width) ELSE <<1, 1>>
             scale_y == IF drawing_height > 0 THEN Frac(FitSide, drawing_height) ELSE <<1, 1>>
         IN  min(scale_x, scale_y)
    ELSE <<1, 1>>

ScriptStep(frame) ==
    /\ script' = frame
    /\ UNCHANGED <<folders, link, outbox, runs, active, proc, obs, conv, tmpdir, plotter, mailbox>>

\* lines 14-23 and 58-71, 106: the image is traced into drawing.svg, whose
\* width and height are read; when either fails the script is over
get_svg_dimensions ==
    /\ script.pc = "idle"
    /\ \/ \E w \in Sizes, h \in Sizes :
             ScriptStep([ScriptIdle EXCEPT !.pc = "factor", !.drawing_width = w,
                                          !.drawing_height = h, !.scaled = << <<w, 1>>, <<h, 1>> >>])
       \/ ScriptStep([ScriptIdle EXCEPT !.pc = "done"])

\* lines 110-115
ComputeScale ==
    /\ script.pc = "factor"
    /\ ScriptStep([script EXCEPT !.pc = "scale",
                                 !.scale_factor = scale_factor(script.drawing_width,
                                                               script.drawing_height)])

\* lines 118-119 and 73-102: scale_svg_file wraps the drawing in
\* <g transform="scale(f)"> unless the factor is 1.0
scale_svg_file ==
    /\ script.pc = "scale"
    /\ IF script.scale_factor = <<1, 1>>
       THEN ScriptStep([script EXCEPT !.pc = "compile"])
       ELSE ScriptStep([script EXCEPT !.pc = "compile", !.wrapped = TRUE,
               !.scaled = << Times(script.drawing_width, script.scale_factor),
                             Times(script.drawing_height, script.scale_factor) >>])

\* lines 122-136: the drawing, from its origin to its far corner, is
\* compiled with PlotterGcodeInterface, passes=1
ScriptCompile ==
    /\ script.pc = "compile"
    /\ ScriptStep([script EXCEPT !.pc = "done",
               !.program = Compile("PlotterGcodeInterface",
                                   << << <<0, 1>>, <<0, 1>> >>, script.scaled >>, 1)])

NextScript ==
    \/ get_svg_dimensions
    \/ ComputeScale
    \/ scale_svg_file
    \/ ScriptCompile

SpecScript == InitConvert /\ [][NextScript]_vars

(***************************************************************************)
(* tests/test_con.py, lines 30-56: a PlotterGcodeInterface whose methods   *)
(* are called in any order.  What is kept is the name of each call and the *)
(* command it returned.                                                    *)
(***************************************************************************)
\* calls of the interface in one behaviour
MaxCalls == 4

\* the points a move can be to
Targets == { <<0, 0>>, <<10, 20>> }

Call(name, command) ==
    /\ Len(plotter.calls) < MaxCalls
    /\ plotter' = [calls |-> Append(plotter.calls, name),
                   out |-> Append(plotter.out, command)]
    /\ UNCHANGED <<folders, link, outbox, runs, active, proc, obs, conv, tmpdir, script, mailbox>>

\* lines 40-42
LaserOff == Call("laser_off", laser_off("PlotterGcodeInterface"))

\* lines 44-47
LaserOn == Call("laser_on", laser_on("PlotterGcodeInterface"))

\* lines 49-51
SetLaserPower == Call("set_laser_power", set_laser_power("PlotterGcodeInterface"))

\* lines 53-56
LinearMove == \E point \in Targets : Call("linear_move", linear_move("PlotterGcodeInterface", point))

NextInterface ==
    \/ LaserOff
    \/ LaserOn
    \/ SetLaserPower
    \/ LinearMove

\* lines 35-38: the interface as __init__ leaves it; nothing else is going on
InitInterface ==
    /\ plotter_gcode = <<>>
    /\ sent_gcode = NoFiles
    /\ plotter_svgs = {}
    /\ plotter_metadata = NoFiles
    /\ InitRest
    /\ runs = 0
    /\ active = {}

SpecInterface == InitInterface /\ [][NextInterface]_vars

(***************************************************************************)
(* email_downloader.py: process_email (lines 28-60), called for each       *)
(* unread message of an allowed sender (lines 95-96).  A message has one   *)
(* attachment; an image is known by the drawing it shows.                  *)
(***************************************************************************)
\* times the move of one message to the Processed folder fails
MaxFailedMoves == 1

\* a message: its sender, its attachment (file name, content type, payload),
\* and the times its move has failed
Message(from, base, ext, content_type, payload) ==
    [from |-> from, base |-> base, ext |-> ext, content_type |-> content_type,
     payload |-> payload, failed |-> 0]

\* a drawing of two strokes
Hook == << <<0, 0>>, <<0, 50>>, <<50, 50>> >>

\* alice sends a.png; bob sends an attachment of the same base name
FromAlice == Message("alice", "a", ".png", "image/png", Stroke)
FromBob ==
    { Message("bob", "a", ".png", "image/png", Hook),
      Message("bob", "a", ".jpg", "image/jpeg", Hook),
      Message("bob", "a", ".txt", "text/plain", Hook) }

\* lines 341-343: the images are listed by extension: *.png, then *.jpg, then *.jpeg
Rank(ext) == CASE ext = ".png" -> 1 [] ext = ".jpg" -> 2 [] OTHER -> 3

\* lines 42-44: open(filepath, "wb") writes over a file of that name, or
\* makes a new one, which glob lists wherever the file system puts it
PutImage(listing, entry) ==
    LET same == { k \in 1..Len(listing) :
                    listing[k].base = entry.base /\ listing[k].ext = entry.ext }
    IN  IF same # {}
        THEN { [k \in 1..Len(listing) |-> IF k \in same THEN entry ELSE listing[k]] }
        ELSE { l \in { SubSeq(listing, 1, k) \o <<entry>> \o SubSeq(listing, k + 1, Len(listing)) :
                         k \in 0..Len(listing) } :
                  \A i, j \in 1..Len(l) : i < j => Rank(l[i].ext) <= Rank(l[j].ext) }

\* lines 28-60: an image attachment is saved under its own file name in
\* DOWNLOAD_FOLDER (the converter's INPUT_FOLDER), and the sender under the
\* attachment's base name in METADATA_FOLDER; the message is then moved to
\* the Processed folder, and when the move fails it is still unread and is
\* processed again later.  A message without an image stays as it is.
process_email ==
    /\ mailbox # <<>>
    /\ LET msg == Head(mailbox)
       IN  IF msg.content_type \in {"image/png", "image/jpeg"}
           THEN /\ \E images \in PutImage(conv.disk.images,
                                          [base |-> msg.base, ext |-> msg.ext, payload |-> msg.payload]) :
                      conv' = [conv EXCEPT !.disk.images = images]
                /\ plotter_metadata' = Put(plotter_metadata, msg.base, msg.from)
                /\ \/ mailbox' = Tail(mailbox)
                   \/ /\ msg.failed < MaxFailedMoves
                      /\ mailbox' = Append(Tail(mailbox), [msg EXCEPT !.failed = @ + 1])
           ELSE /\ mailbox' = Append(Tail(mailbox), msg)
                /\ UNCHANGED <<conv, plotter_metadata>>
    /\ UNCHANGED <<plotter_gcode, sent_gcode, plotter_svgs, link, outbox, runs, active,
                   proc, obs, tmpdir, script, plotter>>

\* The three programs side by side: nothing is pending and INPUT_FOLDER is
\* empty; two messages are unread; the converter runs MaxConversions times
\* and the job runner once.
InitMail ==
    /\ plotter_gcode = <<>>
    /\ sent_gcode = NoFiles
    /\ plotter_svgs = {}
    /\ plotter_metadata = NoFiles
    /\ wire = <<>> /\ inbuf = <<>> /\ startup = 0 /\ outbox = {}
    /\ runs = 1 /\ active = {1}
    /\ proc = [p \in Procs |-> Idle]
    /\ obs = [p \in Procs |-> NoObs]
    /\ conv = [ConvIdle EXCEPT !.left = MaxConversions,
                               !.disk = Disk("settings", DefaultSettings, <<>>, <<>>)]
    /\ tmpdir = {}
    /\ script = ScriptIdle
    /\ plotter = NoCalls
    /\ \E second \in FromBob : mailbox = << FromAlice, second >>

NextMail == Next \/ NextConverter \/ process_email

SpecMail == InitMail /\ [][NextMail]_vars


(***************************************************************************)
(* What the claims speak of.                                               *)
(***************************************************************************)
\* p has selected a program, and its text as it was then
HasJob(p) == proc[p].file_to_stream # ""
JobText(p) == TextOf(obs[p].fs0.gcode, proc[p].file_to_stream)

\* p is in the try block, past the for loop: every line was dealt with and
\* no write or read raised
PastLoop(p) == proc[p].pc \in {"email", "rename", "rmsvg", "rmmeta"}

\* the places of the characters of a raw line that are not whitespace
Ink(raw) == { k \in 1..Len(raw) : raw[k] \notin Whitespace }
FirstInk(raw) == CHOOSE k \in Ink(raw) : \A j \in Ink(raw) : k <= j
LastInk(raw) == CHOOSE k \in Ink(raw) : \A j \in Ink(raw) : j <= k

\* a line to transmit: not blank, and its first non-whitespace character is no ';'
IsCommand(raw) == Ink(raw) # {} /\ raw[FirstInk(raw)] # ";"

Commands(text) == SelectSeq(text, IsCommand)

\* the bytes of a command line as the claim has them on the link: the line
\* without the whitespace around it, then one line feed (10)
OnTheLink(raw) == Append(encode(SubSeq(raw, FirstInk(raw), LastInk(raw))), 10)

ExpectedBlocks(text) == [k \in 1..Len(Commands(text)) |-> OnTheLink(Commands(text)[k])]

IsPrefix(s, t) == Len(s) <= Len(t) /\ SubSeq(t, 1, Len(s)) = s

(***************************************************************************)
(* C1: after the handshake the serial operations of a call are write,      *)
(* read, write, read, ...: a write is never issued while the read of the   *)
(* write before it is outstanding, and when the loop has ended without an  *)
(* I/O error there were exactly N writes and N reads, N the number of      *)
(* transmittable lines of the program.                                     *)
(***************************************************************************)
C1_LockStep ==
    \A p \in Procs :
       /\ \A k \in 1..Len(obs[p].ops) :
             obs[p].ops[k] = IF k % 2 = 1 THEN "write" ELSE "read"
       /\ proc[p].pc \in {"iter", "write"} => Len(obs[p].ops) % 2 = 0
       /\ PastLoop(p) => Len(obs[p].ops) = 2 * Len(Commands(JobText(p)))

\* a program of two commands has been streamed: write, read, write, read
C1_Witness ==
    \E p \in Procs :
       /\ proc[p].pc = "email"
       /\ Len(Commands(JobText(p))) = 2
       /\ obs[p].ops = <<"write", "read", "write", "read">>

(***************************************************************************)
(* C2: at most one command is unacknowledged at the controller at any      *)
(* time: command k+1 is not written before the controller has answered     *)
(* command k.                                                              *)
(***************************************************************************)
C2_OneUnacknowledged == Len(wire) <= 1

(***************************************************************************)
(* C3: the blocks written to the link are the lines of the program file in *)
(* file order, each without its surrounding whitespace and ended by one    *)
(* line feed, the blank lines and the comment lines left out; the program  *)
(* '; comment', '', 'G1 X1 Y1' has exactly one block written.              *)
(***************************************************************************)
C3_Transmitted ==
    \A p \in Procs :
       HasJob(p) =>
          /\ IsPrefix(obs[p].written, ExpectedBlocks(JobText(p)))
          /\ PastLoop(p) => obs[p].written = ExpectedBlocks(JobText(p))
          /\ PastLoop(p) /\ JobText(p) = Example => Len(obs[p].written) = 1

\* the example program has been streamed: one block, "G G" and a line feed
C3_Witness ==
    \E p \in Procs :
       /\ proc[p].pc = "email"
       /\ JobText(p) = Example
       /\ obs[p].written = << <<71, 32, 71, 10>> >>


\* the job of p is where it was when p selected it, as is all else
Untouched(p) == Outside = obs[p].fs0

\* the program of p's job is in the sent folder and no longer pending
Archived(p) ==
    /\ proc[p].file_to_stream \notin Names(plotter_gcode)
    /\ proc[p].file_to_stream \in DOMAIN sent_gcode
    /\ sent_gcode[proc[p].file_to_stream] = JobText(p)

\* neither the SVG nor the metadata of p's job is there
CompanionsRemoved(p) ==
    /\ proc[p].file_to_stream \notin plotter_svgs
    /\ proc[p].file_to_stream \notin DOMAIN plotter_metadata

\* a companion that p's job had when it was selected is gone
SomeCompanionRemoved(p) ==
    \/ proc[p].file_to_stream \in obs[p].fs0.svgs \ plotter_svgs
    \/ proc[p].file_to_stream \in DOMAIN obs[p].fs0.meta \ DOMAIN plotter_metadata

Ended(p) == proc[p].pc = "done" /\ HasJob(p)

\* the call has ended and had streamed every command of its job
EndedStreamed(p) ==
    /\ Ended(p)
    /\ proc[p].exc = "none" \/ proc[p].at \in {"email", "rename", "rmsvg", "rmmeta"}

\* os.rename or os.remove raised, or the call was interrupted after the loop
ArchivingFailed(p) ==
    proc[p].at \in {"rename", "rmsvg", "rmmeta"} \/ proc[p].exc = "KeyboardInterrupt"

(***************************************************************************)
(* C4: when the call has ended by a SerialException (the port could not be *)
(* opened, or a write or a read failed), the program is still pending with *)
(* its text, the sent folder holds nothing new, SVG and metadata are       *)
(* there, and no completion email went out.                                *)
(***************************************************************************)
C4_FailureLeavesJob ==
    \A p \in Procs :
       Ended(p) /\ proc[p].exc = "SerialException" =>
          Untouched(p) /\ obs[p].notified = "none"

\* a read failed after a block had been written, the job having an SVG
C4_Witness ==
    \E p \in Procs :
       /\ Ended(p) /\ proc[p].exc = "SerialException" /\ proc[p].at = "read"
       /\ Len(obs[p].written) >= 1
       /\ proc[p].file_to_stream \in plotter_svgs

(***************************************************************************)
(* C5: after a call that failed in mid-stream the pending folder is as it  *)
(* was, and the next call that selects a program selects the same one and  *)
(* writes its command lines from the first on.                             *)
(***************************************************************************)
C5_RetrySameJob ==
    \A p \in Procs :
       /\ FailedMidStream(p) => plotter_gcode = obs[p].fs0.gcode
       /\ obs[p].prev # "" /\ HasJob(p) =>
             /\ proc[p].file_to_stream = obs[p].prev
             /\ IsPrefix(obs[p].written, ExpectedBlocks(JobText(p)))

\* the call after a failed one has written the first command again, with two
\* programs pending
C5_Witness ==
    \E p \in Procs :
       /\ obs[p].prev # ""
       /\ proc[p].pc = "read"
       /\ Len(obs[p].written) = 1
       /\ Len(plotter_gcode) = 2

(***************************************************************************)
(* C6: when a call has streamed every command (and neither the rename nor  *)
(* a remove failed, nor was it interrupted), the program is in the sent    *)
(* folder and not pending, and SVG and metadata are gone; and a companion  *)
(* is gone only when the program is archived.                              *)
(***************************************************************************)
C6_ArchivedAfterStreaming ==
    \A p \in Procs :
       /\ EndedStreamed(p) /\ ~ArchivingFailed(p) => Archived(p) /\ CompanionsRemoved(p)
       /\ HasJob(p) /\ SomeCompanionRemoved(p) => Archived(p)

(***************************************************************************)
(* C7: whatever the notification step did, a call that reached it ends     *)
(* with the job completed: archived, companions removed (unless the rename *)
(* or a remove failed, or the call was interrupted).                       *)
(***************************************************************************)
C7_NotificationNeverFailsJob ==
    \A p \in Procs :
       Ended(p) /\ obs[p].notified # "none" /\ ~ArchivingFailed(p) =>
          Archived(p) /\ CompanionsRemoved(p)

(***************************************************************************)
(* C8: when a call has ended, however it ended, its port is not open, and  *)
(* it is closed if the call opened it.                                     *)
(***************************************************************************)
C8_PortClosed ==
    \A p \in Procs :
       proc[p].pc = "done" =>
          /\ proc[p].s # "open"
          /\ obs[p].opens > 0 => proc[p].s = "closed"

\* a call that was interrupted while it waited for an acknowledgment has ended
C8_Witness ==
    \E p \in Procs :
       /\ proc[p].pc = "done"
       /\ proc[p].exc = "KeyboardInterrupt" /\ proc[p].at = "read"
       /\ proc[p].s = "closed"

(***************************************************************************)
(* C9: of two job runners at once, at most one holds the port open, and no *)
(* program is streamed by both.                                            *)
(***************************************************************************)
C9_OneRunnerAtATime ==
    /\ Cardinality({ p \in Procs : proc[p].s = "open" }) <= 1
    /\ \A p, q \in Procs :
          p # q => \A k \in 1..Len(obs[p].jobs), l \in 1..Len(obs[q].jobs) :
                      obs[p].jobs[k] # obs[q].jobs[l]

(***************************************************************************)
(* C10: one call opens the serial port at most once and streams at most    *)
(* one program, however many are pending.                                  *)
(***************************************************************************)
C10_OneJobPerCall ==
    \A p \in Procs : obs[p].opens <= 1 /\ Len(obs[p].jobs) <= 1

\* a call of the module-level function has ended with two programs pending
C10_Witness ==
    \E p \in Procs :
       /\ proc[p].pc = "done"
       /\ proc[p].entry = "module"
       /\ Len(plotter_gcode) = 2

(***************************************************************************)
(* C11: the program a call selects is determined by what is pending: a     *)
(* call that finds the same pending programs (names and texts) as the      *)
(* process's last selecting call found selects the same program.           *)
(***************************************************************************)
C11_DeterministicSelection ==
    \A p \in Procs :
       /\ HasJob(p)
       /\ obs[p].last.file # ""
       /\ Contents(obs[p].fs0.gcode) = obs[p].last.pending
       => proc[p].file_to_stream = obs[p].last.file

\* the handshake of lines 149-152, in its order
Handshake == << <<"open">>, <<"wake">>, <<"sleep", 2>>, <<"flush">> >>

(***************************************************************************)
(* C12: in every call the steps before the first command line are: the     *)
(* port opened, the wake sequence written, 2 seconds slept, the input      *)
(* buffer discarded, in that order; no command line is written (or is      *)
(* about to be) before all four have been done.                            *)
(***************************************************************************)
C12_HandshakeFirst ==
    \A p \in Procs :
       /\ IsPrefix(obs[p].shake, Handshake)
       /\ obs[p].ops # <<>> \/ proc[p].pc \in {"openfile", "iter", "write", "read"} =>
             obs[p].shake = Handshake

\* the first command line has been written, after the four steps
C12_Witness ==
    \E p \in Procs :
       /\ proc[p].pc = "read"
       /\ obs[p].ops = <<"write">>
       /\ obs[p].shake = Handshake

\* load_config found no usable configuration
BadConfig(p) == obs[p].config \in {"absent", "nosection", "incomplete"}

(***************************************************************************)
(* C13: when config.ini is absent, or lacks usb_port or baud_rate, the     *)
(* call ends at once: it selects no program, opens no port, and leaves the *)
(* folders and the outbox as they were.                                    *)
(***************************************************************************)
C13_BadConfigEndsCall ==
    \A p \in Procs :
       BadConfig(p) =>
          /\ proc[p].pc \in {"return", "done"}
          /\ ~HasJob(p)
          /\ obs[p].opens = 0 /\ obs[p].shake = <<>> /\ obs[p].ops = <<>>
          /\ Untouched(p)

\* a call has ended on a config.ini without baud_rate, two programs pending
C13_Witness ==
    \E p \in Procs :
       /\ proc[p].pc = "done"
       /\ obs[p].config = "incomplete"
       /\ Len(plotter_gcode) = 2

(***************************************************************************)
(* The plot area of the settings, and the drawing set against it.          *)
(***************************************************************************)
PlotWidth(cfg) == cfg.max_plot_x - cfg.min_plot_x
PlotHeight(cfg) == cfg.max_plot_y - cfg.min_plot_y

\* the area is empty or inverted
Degenerate(cfg) == cfg.max_plot_x <= cfg.min_plot_x \/ cfg.max_plot_y <= cfg.min_plot_y

\* the drawing is larger than the area in at least one dimension
Overflows(points, cfg) == Width(points) > PlotWidth(cfg) \/ Height(points) > PlotHeight(cfg)

Inside(point, cfg) ==
    /\ cfg.min_plot_x <= point[1] /\ point[1] <= cfg.max_plot_x
    /\ cfg.min_plot_y <= point[2] /\ point[2] <= cfg.max_plot_y

\* process_image_to_gcode has been called for an image, and has been left
ConvCalled == conv.image.base # ""
ConvEnded == ConvCalled /\ conv.pc \in {"loop", "done"}

\* min(plotWidth / drawingWidth, plotHeight / drawingHeight), the ratio of an
\* axis of extent 0 being 1
FitFactor(points, cfg) ==
    min(IF Width(points) > 0 THEN Frac(PlotWidth(cfg), Width(points)) ELSE <<1, 1>>,
        IF Height(points) > 0 THEN Frac(PlotHeight(cfg), Height(points)) ELSE <<1, 1>>)

(***************************************************************************)
(* C14: with a plot area that is empty or inverted, a call of              *)
(* process_image_to_gcode hands no geometry to the compiler, generates no  *)
(* motion program, writes no program file for the job runner to stream,    *)
(* and ends with an error.                                                 *)
(***************************************************************************)
C14_DegenerateAreaFails ==
    ConvCalled /\ Degenerate(conv.config) =>
       /\ conv.appended = <<>>
       /\ conv.program = <<>>
       /\ conv.image.base \notin Names(plotter_gcode)
       /\ ConvEnded => conv.exc # "none"

(***************************************************************************)
(* C15: when the drawing is larger than the plot area in a dimension,      *)
(* every point handed to the compiler, and so the target of every movement *)
(* command, lies in the plot area.                                         *)
(***************************************************************************)
C15_FitNeverOverflows ==
    /\ conv.appended # <<>> /\ ~Degenerate(conv.config) /\ Overflows(conv.curves, conv.config) =>
          \A k \in 1..Len(conv.appended) : Inside(conv.appended[k], conv.config)
    /\ conv.program # <<>> /\ ~Degenerate(conv.config) /\ Overflows(conv.curves, conv.config) =>
          \A k \in 1..Len(conv.program) :
             conv.program[k].x # <<>> =>
                Inside(<<conv.program[k].x[1], conv.program[k].y[1]>>, conv.config)

C17_Centered ==
    conv.appended # <<>> /\ ~Degenerate(conv.config) =>
       /\ Least(Xs(conv.appended)) + Most(Xs(conv.appended))
             = conv.config.min_plot_x + conv.config.max_plot_x
       /\ Least(Ys(conv.appended)) + Most(Ys(conv.appended))
             = conv.config.min_plot_y + conv.config.max_plot_y
       /\ conv.config = DefaultSettings =>
             /\ Least(Xs(conv.appended)) + Most(Xs(conv.appended)) = 2 * 120
             /\ Least(Ys(conv.appended)) + Most(Ys(conv.appended)) = 305

(***************************************************************************)
(* C18: when the drawing overflows the plot area, the geometry handed to   *)
(* the compiler is the drawing scaled on both axes by min(plotWidth /      *)
(* drawingWidth, plotHeight / drawingHeight), the ratio of an axis of      *)
(* extent 0 being 1; for the area (30,30)-(210,275) and the drawing        *)
(* (0,0)-(360,490) the factor is 1/2.                                      *)
(***************************************************************************)
C18_OneScaleFactor ==
    conv.appended # <<>> /\ ~Degenerate(conv.config) /\ Overflows(conv.curves, conv.config) =>
       LET f == FitFactor(conv.curves, conv.config)
       IN  /\ Width(conv.appended) * f[2] = Width(conv.curves) * f[1]
           /\ Height(conv.appended) * f[2] = Height(conv.curves) * f[1]
           /\ conv.config = DefaultSettings /\ conv.curves = << <<0, 0>>, <<360, 490>> >> =>
                 f = <<1, 2>> /\ Width(conv.appended) = 180 /\ Height(conv.appended) = 245

(***************************************************************************)
(* C19: a motion program the converter has compiled has no M3, M4 or M5;   *)
(* it begins by lifting the pen to the travel height, lowers it by a Z     *)
(* move to the pen-down position, and every movement in X and Y carries    *)
(* that Z.                                                                 *)
(***************************************************************************)
C19_PenStrategy ==
    conv.program # <<>> =>
       /\ \A k \in 1..Len(conv.program) :
             /\ conv.program[k].cmd \notin {"M3", "M4", "M5"}
             /\ conv.program[k].x # <<>> =>
                   conv.program[k].z = <<conv.config.pen_down_position_mm>>
       /\ conv.program[1] = Command("G0", <<>>, <<>>, <<conv.config.pen_travel_position_mm>>)
       /\ conv.program[3] = Command("G1", <<>>, <<>>, <<conv.config.pen_down_position_mm>>)

(***************************************************************************)
(* C20: when process_image_to_gcode has been left after it made its        *)
(* temporary file, the file is gone and was removed once, whether the call *)
(* returned or raised; and a call that returned returned                   *)
(* <output_folder>/<image base name>.gcode, which is there.                *)
(***************************************************************************)
C20_TempFileRemoved ==
    /\ conv.removes <= 1
    /\ ConvEnded /\ conv.tmp # 0 => conv.tmp \notin tmpdir /\ conv.removes = 1
    /\ ConvEnded /\ conv.exc = "none" =>
          /\ conv.result = <<"plotter_gcode", conv.image.base, ".gcode">>
          /\ conv.image.base \in Names(plotter_gcode)


\* the two outcomes of a call that selected a program
Completed(p) == Archived(p) /\ CompanionsRemoved(p) /\ obs[p].notified # "none"
Failed(p) == Untouched(p) /\ obs[p].notified = "none"

(***************************************************************************)
(* C21: a call that selected a program and was not interrupted ends either *)
(* Completed (program in the sent folder and not pending, SVG and metadata *)
(* gone, notification attempted) or Failed (folders and outbox as they     *)
(* were, no notification attempted), never in between.                     *)
(***************************************************************************)
C21_TwoOutcomes ==
    \A p \in Procs :
       Ended(p) /\ proc[p].exc # "KeyboardInterrupt" => Completed(p) \/ Failed(p)


\* p has moved its program to the sent folder in this call
Moved(p) ==
    /\ HasJob(p)
    /\ proc[p].file_to_stream \in DOMAIN sent_gcode
    /\ proc[p].file_to_stream \notin DOMAIN obs[p].fs0.sent

\* the controller's answer to a command has not been read: the command is
\* still with the controller, or its response line is in the input buffer
AnswerOutstanding ==
    wire # <<>> \/ \E k \in 1..Len(inbuf) : inbuf[k].kind # "startup"

(***************************************************************************)
(* C22: when a call has moved its program to the sent folder, every        *)
(* transmittable line of the program has been written, in file order and   *)
(* once, a line has been read after each, and no answer of the controller  *)
(* to any of them is still unread.                                         *)
(***************************************************************************)
C22_ArchivedOnlyWhenAcknowledged ==
    \A p \in Procs :
       Moved(p) /\ proc[p].s = "open" =>
          /\ obs[p].written = ExpectedBlocks(JobText(p))
          /\ Len(obs[p].ops) = 2 * Len(obs[p].written)
          /\ ~AnswerOutstanding


\* p is in a call
InCall(p) == proc[p].pc \notin {"idle", "done"}

\* the call of p is over: the port is not open, and the program it selected,
\* if any, is in the sent folder or pending
Terminal(p) ==
    /\ proc[p].pc = "done"
    /\ proc[p].s # "open"
    /\ HasJob(p) => \/ proc[p].file_to_stream \in DOMAIN sent_gcode
                    \/ proc[p].file_to_stream \in Names(plotter_gcode)

AttemptFailed(n) ==
    \E p \in Procs :
       /\ proc[p].pc = "done"
       /\ proc[p].file_to_stream = n
       /\ proc[p].exc = "SerialException"

\* a call has selected program n
Selected(n) == \E p \in Procs : proc[p].file_to_stream = n

(***************************************************************************)
(* C24: with programs A and B pending and the job runner called again and  *)
(* again, if A is attempted time after time and fails every time (it is    *)
(* never archived), a call selects B sooner or later.                      *)
(***************************************************************************)
C24_FailureDoesNotBlockOthers ==
    \A A \in Jobs : \A B \in Jobs \ {A} :
       ([]<>AttemptFailed(A) /\ [](A \notin DOMAIN sent_gcode)) => <>Selected(B)


\* the write or the read of a command has failed in the call of p
MidFail(p) == proc[p].exc = "SerialException" /\ proc[p].at \in {"write", "read"}

(***************************************************************************)
(* C25: once the write or the read of a command has failed, the call       *)
(* writes no further line, the error is taken by a handler (the call ends  *)
(* without an uncaught exception), and the folders and the outbox stay as  *)
(* they were when the program was selected: the other pending jobs and the *)
(* archived programs are unchanged.                                        *)
(***************************************************************************)
C25_FailureStopsRun ==
    [][\A p \in Procs :
          /\ MidFail(p) =>
                /\ Untouched(p)
                /\ proc[p].exc \notin Uncaught
                /\ proc[p].pc \in {"except", "finally", "return", "done"}
          /\ MidFail(p) /\ MidFail(p)' =>
                /\ obs[p].written' = obs[p].written
                /\ Untouched(p)']_vars

\* the read of the first of two commands has failed and the call is over,
\* another program being pending
C25_Witness ==
    \E p \in Procs :
       /\ MidFail(p) /\ proc[p].pc = "done" /\ proc[p].at = "read"
       /\ Len(obs[p].written) = 1
       /\ Len(Commands(JobText(p))) = 2
       /\ Len(plotter_gcode) = 2


\* the job p selected had no metadata record, or one that is no JSON
NoRecord(p) == proc[p].file_to_stream \notin DOMAIN obs[p].fs0.meta
BadRecord(p) ==
    IF NoRecord(p) THEN FALSE
    ELSE obs[p].fs0.meta[proc[p].file_to_stream] = "malformed"

\* the call met no failure of the serial link, the program file or the
\* archiving, and was not interrupted
NothingElseFailed(p) ==
    /\ proc[p].exc \notin {"SerialException", "KeyboardInterrupt"}
    /\ proc[p].at \notin {"openfile", "email", "rename", "rmsvg", "rmmeta"}

(***************************************************************************)
(* C26: a call whose job has no metadata record, or an unreadable one,     *)
(* ends without an uncaught exception, and when nothing else failed the    *)
(* program has been streamed and is archived.                              *)
(***************************************************************************)
C26_MetadataOnlyForNotification ==
    \A p \in Procs :
       Ended(p) /\ (NoRecord(p) \/ BadRecord(p)) =>
          /\ proc[p].exc \notin Uncaught \ {"KeyboardInterrupt"}
          /\ NothingElseFailed(p) =>
                /\ Archived(p)
                /\ obs[p].written = ExpectedBlocks(JobText(p))


(***************************************************************************)
(* C27: a program that is in the sent folder is not streamed again: no     *)
(* call begins to stream a program of a name that was archived before the  *)
(* call selected it.  (The program of an image bears the image's name.)    *)
(***************************************************************************)
C27_PlottedAtMostOnce ==
    \A p \in Procs :
       \A k \in 1..Len(obs[p].jobs) : obs[p].jobs[k] \notin DOMAIN obs[p].fs0.sent


(***************************************************************************)
(* C28: when a line read back after a command was an error response, the   *)
(* call does not go on to complete the job: no notification is attempted   *)
(* and the program is not moved to the sent folder.                        *)
(***************************************************************************)
C28_ErrorResponseStopsJob ==
    \A p \in Procs :
       obs[p].refused => obs[p].notified = "none" /\ ~Moved(p)


\* the calls before call k that lift or lower the tool
Toggles(k) == { j \in 1..(k - 1) : plotter.calls[j] \in {"laser_off", "laser_on"} }

\* at call k the tool is up: the last such call before it was laser_off
ToolUp(k) ==
    /\ Toggles(k) # {}
    /\ plotter.calls[CHOOSE j \in Toggles(k) : \A i \in Toggles(k) : i <= j] = "laser_off"

(***************************************************************************)
(* C29: a movement command issued while the tool is up (after laser_off    *)
(* and before the next laser_on) does not send the pen to the plunge       *)
(* depth.                                                                  *)
(***************************************************************************)
C29_TravelAtSafeHeight ==
    \A k \in 1..Len(plotter.calls) :
       plotter.calls[k] = "linear_move" /\ ToolUp(k) =>
          plotter.out[k].z # <<plunge_depth>>


\* a text is the whole program the converter makes of a drawing
Whole(text) == \E drawing \in {Stroke, Hook} : text = Converted(drawing)

\* the messages there are
Messages == {FromAlice} \cup FromBob

\* the senders of the image attachments that program name with that text
\* can have been made of
Origin(name, text) ==
    { m.from : m \in { n \in Messages : /\ n.content_type \in {"image/png", "image/jpeg"}
                                         /\ n.base = name
                                         /\ Converted(n.payload) = text } }

(***************************************************************************)
(* C30: the completion email of a job goes to the sender of the message    *)
(* whose attachment the job's program was made of, also when two senders   *)
(* sent attachments of the same name, or of the same base name.  (Of a     *)
(* program that was whole when the call selected it.)                      *)
(***************************************************************************)
C30_NotifiesTheSender ==
    \A p \in Procs :
       obs[p].notified = "sent" /\ proc[p].pc # "done" /\ Whole(JobText(p)) =>
          proc[p].recipient \in Origin(proc[p].file_to_stream, JobText(p))

(***************************************************************************)
(* C31: with the converter and the job runner running side by side, the    *)
(* job runner never selects and streams a program file the converter is    *)
(* still writing: the program a call selects, the text it streams, and the *)
(* program it archives are each the whole compiled program of an image.    *)
(***************************************************************************)
C31_StreamsOnlyCompletePrograms ==
    \A p \in Procs :
       /\ HasJob(p) => Whole(JobText(p))
       /\ PastLoop(p) => Whole(proc[p].text)
       /\ Moved(p) => Whole(sent_gcode[proc[p].file_to_stream])

====
